---------------------------- MODULE Spec2Model ----------------------------
(***************************************************************************)
(* A model of tcp_skeleton.c: the growable I/O buffer, the listening       *)
(* address parser, the connection list of a server and the poll loop with  *)
(* its per-connection I/O state machine.                                   *)
(*                                                                         *)
(* The poll loop is single-threaded but calls back into user code and into *)
(* the operating system; it is modelled as a sequence of steps (one per    *)
(* connection and walk) guarded by the position pc, so that no other       *)
(* operation can run between two steps of one call.                        *)
(***************************************************************************)
EXTENDS Integers, Sequences, FiniteSets, TLC

(* ------------------------------ bounds --------------------------------- *)
\* connections created over the life of the server
MaxConns == 2
\* bytes accepted by ts_send over the life of the server
MaxSend == 2
\* bytes read from sockets over the life of the server
MaxRecv == 1
\* things user code does to connections over the life of the server
MaxUserOps == 2
\* length of the exhaustively enumerated address strings
MaxStrLen == 3

(* --------------------------- program constants ------------------------- *)
INVALID_SOCKET == -1
IOBUF_RESIZE_MULTIPLIER == 2
NULL == 0
\* the descriptor socket() returns for the listener; a connection gets the
\* lowest descriptor above it that no live connection holds (FreshFd)
ListenerFd == 0
\* the port getsockname() reports after binding port 0
EphemeralPort == 49152

TSF_ACCEPTED == "ACCEPTED"
TSF_CONNECTING == "CONNECTING"
TSF_FINISHED_SENDING_DATA == "FINISHED_SENDING_DATA"
TSF_BUFFER_BUT_DONT_SEND == "BUFFER_BUT_DONT_SEND"
TSF_CLOSE_IMMEDIATELY == "CLOSE_IMMEDIATELY"
TSF_SSL_HANDSHAKE_DONE == "SSL_HANDSHAKE_DONE"

VARIABLES
  listening_sock,          \* server->listening_sock
  active_connections,      \* server->active_connections (head of the list)
  conns,                   \* the allocated connection records, by id
  nconn,                   \* number of connection records ever allocated
  pc,                      \* position of the running call
  cur,                     \* the walk's cursor (conn / tmp_conn)
  read_set, write_set,     \* the fd_sets of ts_server_poll
  num_active_connections,  \* the counter of the third walk
  in_free,                 \* the running poll was called by ts_server_free
  last,                    \* the last public call and what it returned
  mon,                     \* per connection: what the callback and the
                           \* sockets have observed so far
  user_ops,                \* number of things user code has done so far
  env,                     \* assumption on the operating system, see Init
  arg,                     \* the address string under test (SpecBind)
  iob, iob_call            \* the buffer under test and the last call on it
                           \* (SpecIobuf)

vars == <<listening_sock, active_connections, conns, nconn, pc, cur,
          read_set, write_set, num_active_connections, in_free, last, mon,
          user_ops, env, arg, iob, iob_call>>

(* ------------------------------ helpers -------------------------------- *)
Max(a, b) == IF a > b THEN a ELSE b

RECURSIVE SumOver(_, _)
SumOver(f, S) ==
  IF S = {} THEN 0
  ELSE LET x == CHOOSE y \in S : TRUE IN f[x] + SumOver(f, S \ {x})

\* the k-th .. (k+n-1)-th byte of a stream: the code copies bytes without
\* looking at them, so a byte is identified by its position in its stream
Stream(k, n) == [i \in 1..n |-> k + i - 1]

IsPrefix(s, t) == Len(s) <= Len(t) /\ SubSeq(t, 1, Len(s)) = s

(* ------------------------------ iobuf ---------------------------------- *)
\* struct iobuf: buf is TRUE when the storage pointer is not NULL, data are
\* the len valid bytes of the storage
EmptyIobuf == [buf |-> FALSE, data |-> <<>>, len |-> 0, size |-> 0]

\* iobuf_init: malloc_ok is the outcome of TS_MALLOC
iobuf_init(size, malloc_ok) ==
  IF size > 0 /\ malloc_ok
  THEN [buf |-> TRUE, data |-> <<>>, len |-> 0, size |-> size]
  ELSE EmptyIobuf

iobuf_free(io) == iobuf_init(0, TRUE)

\* iobuf_append: bytes are the len bytes at buf (none when len <= 0),
\* realloc_ok is the outcome of TS_REALLOC. Returns the buffer and the
\* function's return value.
iobuf_append(io, bytes, len, realloc_ok) ==
  LET new_len == io.len + len IN
  IF len <= 0 THEN [io |-> io, ret |-> len]
  ELSE IF new_len < io.size
  THEN [io |-> [io EXCEPT !.data = io.data \o bytes, !.len = new_len],
        ret |-> len]
  ELSE IF realloc_ok
  THEN [io |-> [buf |-> TRUE, data |-> io.data \o bytes, len |-> new_len,
                size |-> new_len * IOBUF_RESIZE_MULTIPLIER],
        ret |-> len]
  ELSE [io |-> io, ret |-> 0]

iobuf_remove_NoUpperCheck(io, n) ==
  IF n >= 0
  THEN [io EXCEPT !.data = SubSeq(io.data, n + 1, io.len), !.len = io.len - n]
  ELSE io

iobuf_remove(io, n) ==
  IF n >= 0 /\ n <= io.len
  THEN [io EXCEPT !.data = SubSeq(io.data, n + 1, io.len), !.len = io.len - n]
  ELSE io

(* ------------------------- address parsing ----------------------------- *)
DigitValue == [c \in {"0", "1", "2", "3", "4", "5", "6", "7", "8", "9"} |->
  CASE c = "0" -> 0 [] c = "1" -> 1 [] c = "2" -> 2 [] c = "3" -> 3
    [] c = "4" -> 4 [] c = "5" -> 5 [] c = "6" -> 6 [] c = "7" -> 7
    [] c = "8" -> 8 [] c = "9" -> 9]

IsDigit(c) == c \in DOMAIN DigitValue

\* the %u conversion of sscanf at position i (1-based) of str: the longest
\* run of digits; ok is FALSE when no digit is there. The strings checked
\* hold fewer than ten digits, so an unsigned int does not wrap.
RECURSIVE ScanDigits(_, _, _)
ScanDigits(str, i, acc) ==
  IF i <= Len(str) /\ IsDigit(str[i])
  THEN ScanDigits(str, i + 1, (acc * 10) + DigitValue[str[i]])
  ELSE [val |-> acc, pos |-> i]

ScanUInt(str, i) ==
  LET r == ScanDigits(str, i, 0) IN
  [ok |-> r.pos > i, val |-> r.val, pos |-> r.pos]

\* a literal character of the format at position i
ScanChar(str, i, ch) == i <= Len(str) /\ str[i] = ch

\* sscanf(str, "%u.%u.%u.%u:%u%n", ...): the number of conversions made,
\* and, when all five are made, the port and the offset %n stores
ScanIPv4Port(str) ==
  LET a == ScanUInt(str, 1) IN
  IF ~a.ok THEN [n |-> IF Len(str) = 0 THEN -1 ELSE 0, port |-> 0, len |-> 0]
  ELSE IF ~ScanChar(str, a.pos, ".") THEN [n |-> 1, port |-> 0, len |-> 0]
  ELSE LET b == ScanUInt(str, a.pos + 1) IN
  IF ~b.ok THEN [n |-> 1, port |-> 0, len |-> 0]
  ELSE IF ~ScanChar(str, b.pos, ".") THEN [n |-> 2, port |-> 0, len |-> 0]
  ELSE LET c == ScanUInt(str, b.pos + 1) IN
  IF ~c.ok THEN [n |-> 2, port |-> 0, len |-> 0]
  ELSE IF ~ScanChar(str, c.pos, ".") THEN [n |-> 3, port |-> 0, len |-> 0]
  ELSE LET d == ScanUInt(str, c.pos + 1) IN
  IF ~d.ok THEN [n |-> 3, port |-> 0, len |-> 0]
  ELSE IF ~ScanChar(str, d.pos, ":") THEN [n |-> 4, port |-> 0, len |-> 0]
  ELSE LET p == ScanUInt(str, d.pos + 1) IN
  IF ~p.ok THEN [n |-> 4, port |-> 0, len |-> 0]
  ELSE [n |-> 5, port |-> p.val, len |-> p.pos - 1]

\* sscanf(str, "%u%n", &port, &len)
ScanPort(str) ==
  LET p == ScanUInt(str, 1) IN
  IF p.ok THEN [n |-> 1, port |-> p.val, len |-> p.pos - 1]
  ELSE [n |-> IF Len(str) = 0 THEN -1 ELSE 0, port |-> 0, len |-> 0]

\* htons / ntohs on a little-endian host: swap the two bytes
htons(x) == ((x % 256) * 256) + ((x \div 256) % 256)
ntohs(x) == ((x % 256) * 256) + ((x \div 256) % 256)

\* parse_port_string: ret is the return value, sin_port is sa->sin.sin_port
\* (network byte order) as the function leaves it (IPv6 is compiled out)
parse_port_string(str) ==
  LET v4 == ScanIPv4Port(str)
      po == ScanPort(str)
      port == IF v4.n = 5 THEN v4.port ELSE IF po.n = 1 THEN po.port ELSE 0
      len == IF v4.n = 5 THEN v4.len ELSE IF po.n = 1 THEN po.len ELSE 0
      sin_port == IF v4.n = 5 \/ po.n = 1 THEN htons(port % 65536) ELSE 0
  IN [ret |-> IF port <= 65535 /\ len = Len(str) THEN 1 ELSE 0,
      sin_port |-> sin_port]

\* open_listening_socket: os_ok is whether socket, setsockopt, bind and
\* listen all succeed; getsockname then stores the bound port in sa
open_listening_socket(sin_port, os_ok) ==
  IF os_ok
  THEN [sock |-> ListenerFd,
        sin_port |-> IF sin_port = 0 THEN htons(EphemeralPort) ELSE sin_port]
  ELSE [sock |-> INVALID_SOCKET, sin_port |-> sin_port]

\* ts_bind_to: the parser's verdict is not looked at
ts_bind_to(str, os_ok) ==
  LET p == parse_port_string(str)
      l == open_listening_socket(p.sin_port, os_ok)
  IN [sock |-> l.sock, ret |-> ntohs(l.sin_port)]


(* ------------------------ what the callback sees ----------------------- *)
\* The observations kept for connection c:
\*   kind            "accept" or "connect": which operation created it
\*   seen            the callback has been handed the connection
\*   opens, closes   ACCEPT/CONNECT and CLOSE events emitted (2 = two or more)
\*   io_before_open  a RECV or SEND was emitted before ACCEPT/CONNECT
\*   after_close     an event was emitted after CLOSE
\*   status          payload of CONNECT (-1: not emitted yet)
\*   io_after_fail   a RECV or SEND was emitted after a failed CONNECT
\*   accepted        bytes ts_send has accepted (byte i of the stream is i)
\*   written         bytes send() has taken, in order
\*   read            bytes recv() has returned (byte i of the stream is i)
\*   appended        bytes appended to the receive buffer, in order
\*   fin_mark        accepted, at the time the user first set
\*                   finished-sending (-1: never set)
\*   causes          why close-immediately was set ("io", "connect", "fin",
\*                   "user"), and "free" when ts_server_free destroyed it
\*   lost            bytes accepted before finished-sending was set and
\*                   not written when the connection was destroyed
\*   pass            what the second walk of the running poll has done to
\*                   the connection; rx and tx are dropped when the walk
\*                   moves on to the next connection, the rest at its end:
\*     rx            the receive pass: what recv() returned and the number
\*                   of RECV events the pass emitted (NoRx: no such pass)
\*     tx            the send pass: the length of the send buffer and
\*                   whether buffer-but-dont-send was set when it began
\*                   (NoTx: no such pass)
\*     fresh         the connection was accepted by the running poll
\*     io            CONNECT, RECV or SEND was emitted while fresh
NoRx == [res |-> [n |-> -1, soft |-> TRUE], events |-> -1]

NoTx == [len |-> -1, hold |-> FALSE]

NoPass == [rx |-> NoRx, tx |-> NoTx, fresh |-> FALSE, io |-> FALSE]

NewMon(kind) ==
  [kind |-> kind, seen |-> FALSE, opens |-> 0, closes |-> 0,
   io_before_open |-> FALSE, after_close |-> FALSE, status |-> -1,
   io_after_fail |-> FALSE, accepted |-> 0, written |-> <<>>, read |-> 0,
   appended |-> <<>>, fin_mark |-> -1, causes |-> {}, lost |-> 0,
   pass |-> [NoPass EXCEPT !.fresh = (kind = "accept")]]

Saturate(n) == IF n >= 2 THEN 2 ELSE n

Observe(r, ev, payload) ==
  [r EXCEPT
     !.seen = TRUE,
     !.opens = IF ev \in {"ACCEPT", "CONNECT"} THEN Saturate(@ + 1) ELSE @,
     !.closes = IF ev = "CLOSE" THEN Saturate(@ + 1) ELSE @,
     !.io_before_open = @ \/ (ev \in {"RECV", "SEND"} /\ r.opens = 0),
     !.after_close = @ \/ r.closes > 0,
     !.status = IF ev = "CONNECT" THEN payload ELSE @,
     !.io_after_fail = @ \/ (ev \in {"RECV", "SEND"} /\ r.status > 0),
     !.pass.rx.events = IF ev = "RECV" THEN Saturate(@ + 1) ELSE @,
     !.pass.io = @ \/ (ev \in {"CONNECT", "RECV", "SEND"} /\ r.pass.fresh)]

TotalSent(m) == SumOver([c \in DOMAIN m |-> m[c].accepted], DOMAIN m)
TotalRead(m) == SumOver([c \in DOMAIN m |-> m[c].read], DOMAIN m)

(* ------------------------------ user code ------------------------------ *)
\* What the user does with a connection it has been handed, inside a
\* callback or between two polls: nothing, ts_send of the next n bytes of
\* its output (ok: the outcome of TS_REALLOC), or a change of one flag.
UserChoices ==
  {[act |-> "none"], [act |-> "fin"], [act |-> "hold"], [act |-> "release"],
   [act |-> "close"]}
  \cup {[act |-> "send", n |-> n, ok |-> ok] : n \in 1..MaxSend, ok \in BOOLEAN}

\* ts_send on connection c of state S (S has the fields conns, head, mon)
ts_send(S, c, n, realloc_ok) ==
  LET k == S.mon[c].accepted
      r == iobuf_append(S.conns[c].send_iobuf,
                        IF n > 0 THEN Stream(k + 1, n) ELSE <<>>, n, realloc_ok)
  IN [S |-> [S EXCEPT !.conns[c].send_iobuf = r.io,
                      !.mon[c].accepted = k + Max(r.ret, 0)],
      ret |-> r.ret]

\* the user does nothing once it has done MaxUserOps things or when the
\* bytes to send would exceed MaxSend
UserReact(S, c, u) ==
  LET T == [S EXCEPT !.ops = @ + 1] IN
  IF u.act = "none" \/ S.ops >= MaxUserOps THEN S
  ELSE CASE u.act = "send" ->
         IF TotalSent(S.mon) + u.n <= MaxSend
         THEN ts_send(T, c, u.n, u.ok).S ELSE S
    [] u.act = "fin" ->
         [T EXCEPT !.conns[c].flags = @ \cup {TSF_FINISHED_SENDING_DATA},
                   !.mon[c].fin_mark = IF @ = -1 THEN S.mon[c].accepted ELSE @]
    [] u.act = "hold" ->
         [T EXCEPT !.conns[c].flags = @ \cup {TSF_BUFFER_BUT_DONT_SEND}]
    [] u.act = "release" ->
         [T EXCEPT !.conns[c].flags = @ \ {TSF_BUFFER_BUT_DONT_SEND}]
    [] u.act = "close" ->
         [T EXCEPT !.conns[c].flags = @ \cup {TSF_CLOSE_IMMEDIATELY},
                   !.mon[c].causes = @ \cup {"user"}]

\* the choices that change something in state S: none of them once the
\* user has done MaxUserOps things, and no send beyond MaxSend bytes
Reactions(S) ==
  {[act |-> "none"]} \cup
  {u \in UserChoices :
     /\ u.act # "none"
     /\ S.ops < MaxUserOps
     /\ u.act = "send" => TotalSent(S.mon) + u.n <= MaxSend}

\* call_user: the callback is handed the event, then reacts with u
call_user(S, c, ev, payload, u) ==
  UserReact([S EXCEPT !.mon[c] = Observe(@, ev, payload)], c, u)

(* --------------------------- connection list --------------------------- *)
\* ssl: conn->ssl is not NULL (the build with TS_ENABLE_SSL is modelled;
\* without it the field is never looked at)
NewConn(sock, flags, param) ==
  [sock |-> sock, flags |-> flags, recv_iobuf |-> EmptyIobuf,
   send_iobuf |-> EmptyIobuf, next |-> NULL, prev |-> NULL,
   connection_data |-> param, ssl |-> FALSE]

\* what socket() and accept() return: the lowest descriptor that is not
\* open. Descriptors the program has lost track of are in no interest set
\* and only shift the numbers, so they are left out.
FreshFd(S) ==
  LET used == {S.conns[x].sock : x \in DOMAIN S.conns}
      free == {fd \in 1..(Cardinality(used) + 1) : fd \notin used}
  IN CHOOSE fd \in free : \A g \in free : fd <= g

\* allocation of record c (TS_MALLOC + memset + field assignments) followed
\* by ADD_CONNECTION(server, c)
ADD_CONNECTION(S, c, rec) ==
  LET old == S.head
      cs == [x \in DOMAIN S.conns \cup {c} |->
               IF x = c THEN [rec EXCEPT !.next = old] ELSE S.conns[x]]
  IN [S EXCEPT !.conns = IF old # NULL THEN [cs EXCEPT ![old].prev = c] ELSE cs,
               !.head = c]

REMOVE_CONNECTION_KeepPrev(S, c) ==
  LET p == S.conns[c].prev
      n == S.conns[c].next
      c1 == IF p # NULL THEN [S.conns EXCEPT ![p].next = n] ELSE S.conns
  IN [S EXCEPT !.conns = c1, !.head = IF p = NULL THEN n ELSE @]

REMOVE_CONNECTION(S, c) ==
  LET p == S.conns[c].prev
      n == S.conns[c].next
      c1 == IF p # NULL THEN [S.conns EXCEPT ![p].next = n] ELSE S.conns
      c2 == IF n # NULL THEN [c1 EXCEPT ![n].prev = p] ELSE c1
  IN [S EXCEPT !.conns = c2, !.head = IF p = NULL THEN n ELSE @]

\* close_conn: CLOSE to the user, unlink, close the socket, free the
\* buffers and the record. Of the observations the events, the byte counts,
\* the causes and the bytes lost are kept for a connection that is gone.
close_conn(S, c) ==
  LET S1 == call_user(S, c, "CLOSE", NULL, [act |-> "none"])
      S2 == REMOVE_CONNECTION(S1, c)
      m == S.mon[c]
  IN [S2 EXCEPT !.conns = [x \in DOMAIN S2.conns \ {c} |-> S2.conns[x]],
                !.mon[c].written = <<>>, !.mon[c].appended = <<>>,
                !.mon[c].fin_mark = -1, !.mon[c].pass = NoPass,
                !.mon[c].lost = Max(0, m.fin_mark - Len(m.written))]

\* the connections reachable from the head by next, in order
RECURSIVE ListFrom(_, _, _)
ListFrom(cs, c, fuel) ==
  IF c = NULL \/ fuel = 0 \/ c \notin DOMAIN cs THEN <<>>
  ELSE <<c>> \o ListFrom(cs, cs[c].next, fuel - 1)

ActiveList == ListFrom(conns, active_connections, MaxConns + 1)

(* ------------------------------ socket I/O ----------------------------- *)
\* is_error: res is the result of a system call, n its return value and
\* soft whether errno is EINTR, EINPROGRESS, EAGAIN or EWOULDBLOCK
is_error(res) == res.n = 0 \/ (res.n < 0 /\ ~res.soft)

SoftError == [n |-> -1, soft |-> TRUE]
HardError == [n |-> -1, soft |-> FALSE]
Returned(n) == [n |-> n, soft |-> FALSE]

\* read_from_socket. e.ok is what getsockopt(SO_ERROR) stores, e.res the
\* result of recv (SSL_read), e.alloc the outcome of TS_REALLOC, e.ssl the
\* outcome of SSL_connect or SSL_accept ("done", "again": it would block,
\* "fail"); u is the user's reaction to the CONNECT or to the last RECV
\* event.
read_from_socket_KeepConnecting(S, c, e, u) ==
  IF TSF_CONNECTING \in S.conns[c].flags
  THEN LET S2 == call_user(S, c, "CONNECT", e.ok, u)
       IN IF e.ok # 0
          THEN [S2 EXCEPT !.conns[c].flags = @ \cup {TSF_CLOSE_IMMEDIATELY},
                          !.mon[c].causes = @ \cup {"connect"}]
          ELSE S2
  ELSE S

read_from_socket(S, c, e, u) ==
  IF TSF_CONNECTING \in S.conns[c].flags
  THEN LET S1 == [S EXCEPT !.conns[c].flags = @ \ {TSF_CONNECTING}]
           handshake == e.ok = 0 /\ S.conns[c].ssl
           Sh == IF handshake /\ e.ssl = "done"
                 THEN [S1 EXCEPT !.conns[c].flags = {TSF_SSL_HANDSHAKE_DONE}]
                 ELSE S1
           ok == IF handshake /\ e.ssl = "fail" THEN 1 ELSE e.ok
           S2 == call_user(Sh, c, "CONNECT", ok, u)
       IN IF handshake /\ e.ssl = "again"
          THEN [S1 EXCEPT !.conns[c].flags = @ \cup {TSF_CONNECTING}]
          ELSE IF ok # 0
          THEN [S2 EXCEPT !.conns[c].flags = @ \cup {TSF_CLOSE_IMMEDIATELY},
                          !.mon[c].causes = @ \cup {"connect"}]
          ELSE S2
  ELSE IF S.conns[c].ssl /\ TSF_SSL_HANDSHAKE_DONE \notin S.conns[c].flags
  THEN IF e.ssl = "done"
       THEN [S EXCEPT !.conns[c].flags = @ \cup {TSF_SSL_HANDSHAKE_DONE}]
       ELSE S
  ELSE LET n == e.res.n
           k == S.mon[c].read
           S0 == [S EXCEPT !.mon[c].pass.rx = [res |-> e.res, events |-> 0]]
           S1 == IF n > 0 THEN [S0 EXCEPT !.mon[c].read = k + n] ELSE S0
           S2 == IF is_error(e.res)
                 THEN [S1 EXCEPT
                         !.conns[c].flags = @ \cup {TSF_CLOSE_IMMEDIATELY},
                         !.mon[c].causes = @ \cup {"io"}]
                 ELSE IF n > 0
                 THEN LET r == iobuf_append(S1.conns[c].recv_iobuf,
                                            Stream(k + 1, n), n, e.alloc)
                          S3 == [S1 EXCEPT
                                   !.conns[c].recv_iobuf = r.io,
                                   !.mon[c].appended =
                                     IF r.ret > 0 THEN @ \o Stream(k + 1, n)
                                     ELSE @]
                      IN call_user(S3, c, "RECV", NULL, [act |-> "none"])
                 ELSE S1
       IN call_user(S2, c, "RECV", NULL, u)

\* write_to_socket. res is the result of send(sock, io->buf, io->len); u is
\* the user's reaction to the SEND event.
write_to_socket_CloseWhenFinished(S, c, res, u) ==
  LET n == res.n
      io == S.conns[c].send_iobuf
      S0 == [S EXCEPT !.mon[c].pass.tx =
               [len |-> io.len,
                hold |-> TSF_BUFFER_BUT_DONT_SEND \in S.conns[c].flags]]
      S1 == IF is_error(res)
            THEN [S0 EXCEPT !.conns[c].flags = @ \cup {TSF_CLOSE_IMMEDIATELY},
                            !.mon[c].causes = @ \cup {"io"}]
            ELSE IF n > 0
            THEN [S0 EXCEPT !.conns[c].send_iobuf = iobuf_remove(io, n),
                            !.mon[c].written = @ \o SubSeq(io.data, 1, n)]
            ELSE S0
      S2 == IF TSF_FINISHED_SENDING_DATA \in S1.conns[c].flags
            THEN [S1 EXCEPT !.conns[c].flags = @ \cup {TSF_CLOSE_IMMEDIATELY},
                            !.mon[c].causes = @ \cup {"fin"}]
            ELSE S1
  IN call_user(S2, c, "SEND", NULL, u)

write_to_socket(S, c, res, u) ==
  LET n == res.n
      io == S.conns[c].send_iobuf
      S0 == [S EXCEPT !.mon[c].pass.tx =
               [len |-> io.len,
                hold |-> TSF_BUFFER_BUT_DONT_SEND \in S.conns[c].flags]]
      S1 == IF is_error(res)
            THEN [S0 EXCEPT !.conns[c].flags = @ \cup {TSF_CLOSE_IMMEDIATELY},
                            !.mon[c].causes = @ \cup {"io"}]
            ELSE IF n > 0
            THEN [S0 EXCEPT !.conns[c].send_iobuf = iobuf_remove(io, n),
                            !.mon[c].written = @ \o SubSeq(io.data, 1, n)]
            ELSE S0
      S2 == IF S1.conns[c].send_iobuf.len = 0
               /\ TSF_FINISHED_SENDING_DATA \in S1.conns[c].flags
            THEN [S1 EXCEPT !.conns[c].flags = @ \cup {TSF_CLOSE_IMMEDIATELY},
                            !.mon[c].causes = @ \cup {"fin"}]
            ELSE S1
  IN call_user(S2, c, "SEND", NULL, u)


(* ------------------------------ the server ----------------------------- *)
Here ==
  [conns |-> conns, head |-> active_connections, mon |-> mon,
   ops |-> user_ops]

Commit(S) ==
  /\ conns' = S.conns
  /\ active_connections' = S.head
  /\ mon' = S.mon
  /\ user_ops' = S.ops

NoArg == <<"none">>

Idle ==
  [op |-> "none", ret |-> 0]

\* ts_server_init, outside the platform set-up
Init ==
  /\ listening_sock = INVALID_SOCKET
  /\ active_connections = NULL
  /\ conns = <<>>
  /\ nconn = 0
  /\ pc = "idle"
  /\ cur = NULL
  /\ read_set = {}
  /\ write_set = {}
  /\ num_active_connections = 0
  /\ in_free = FALSE
  /\ last = Idle
  /\ mon = <<>>
  /\ user_ops = 0
  /\ env = "any"
  /\ arg = NoArg
  /\ iob = EmptyIobuf
  /\ iob_call = Idle

\* the address strings the server is bound to in the server's own runs
BindExamples == {<<"8", "0">>, <<"8", "0", "x">>}

\* a call of ts_bind_to(server, str)
Bind ==
  /\ pc = "idle"
  /\ \E str \in (IF arg = NoArg THEN BindExamples ELSE {arg}),
        os_ok \in BOOLEAN :
       LET r == ts_bind_to(str, os_ok) IN
         /\ listening_sock' = r.sock
         /\ last' = [op |-> "bind", ret |-> r.ret, os_ok |-> os_ok]
  /\ UNCHANGED <<active_connections, conns, nconn, pc, cur, read_set,
                 write_set, num_active_connections, in_free, mon, user_ops, env, arg,
                 iob, iob_call>>

\* ts_connect. in.host_ok: host is not NULL and gethostbyname finds it;
\* in.sock_ok: socket() succeeds; in.use_ssl; in.res: the result of
\* connect(); in.malloc_ok: the outcome of TS_MALLOC; in.param.
\* MONGOOSE_USE_SSL is not defined (the file does not compile with it).
ConnectInput(host_ok, sock_ok, use_ssl, res, malloc_ok) ==
  [host_ok |-> host_ok, sock_ok |-> sock_ok, use_ssl |-> use_ssl,
   res |-> res, malloc_ok |-> malloc_ok, param |-> "param"]

ConnectInputs ==
  {ConnectInput(FALSE, TRUE, FALSE, SoftError, TRUE),
   ConnectInput(TRUE, FALSE, FALSE, SoftError, TRUE),
   ConnectInput(TRUE, TRUE, TRUE, SoftError, TRUE)}
  \cup {ConnectInput(TRUE, TRUE, FALSE, r, m) :
          r \in {Returned(0), SoftError, HardError}, m \in BOOLEAN}

\* sock_open: the descriptor socket() returned is open when ts_connect
\* returns (no closesocket on the paths that return before TS_MALLOC).
\* conn->ssl is set after the test of use_ssl that returns 0.
ts_connect_SslBuild(S, c, in) ==
  IF ~in.host_ok \/ ~in.sock_ok
  THEN [S |-> S, ret |-> 0, sock_open |-> FALSE]
  ELSE IF is_error(in.res) THEN [S |-> S, ret |-> 0, sock_open |-> TRUE]
  ELSE IF ~in.malloc_ok THEN [S |-> S, ret |-> 0, sock_open |-> FALSE]
  ELSE [S |-> ADD_CONNECTION([S EXCEPT !.mon = [x \in DOMAIN S.mon \cup {c} |->
                     IF x = c THEN NewMon("connect") ELSE S.mon[x]]],
                   c, [NewConn(FreshFd(S), {TSF_CONNECTING}, in.param)
                         EXCEPT !.ssl = in.use_ssl]),
        ret |-> 1, sock_open |-> TRUE]

ts_connect(S, c, in) ==
  IF ~in.host_ok \/ ~in.sock_ok
  THEN [S |-> S, ret |-> 0, sock_open |-> FALSE]
  ELSE IF in.use_ssl THEN [S |-> S, ret |-> 0, sock_open |-> TRUE]
  ELSE IF is_error(in.res) THEN [S |-> S, ret |-> 0, sock_open |-> TRUE]
  ELSE IF ~in.malloc_ok THEN [S |-> S, ret |-> 0, sock_open |-> FALSE]
  ELSE [S |-> ADD_CONNECTION([S EXCEPT !.mon = [x \in DOMAIN S.mon \cup {c} |->
                     IF x = c THEN NewMon("connect") ELSE S.mon[x]]],
                   c, [NewConn(FreshFd(S), {TSF_CONNECTING}, in.param)
                         EXCEPT !.ssl = in.use_ssl]),
        ret |-> 1, sock_open |-> TRUE]

Connect ==
  /\ pc = "idle"
  /\ nconn < MaxConns
  /\ \E in \in ConnectInputs :
       LET r == ts_connect(Here, nconn + 1, in) IN
         /\ Commit(r.S)
         /\ nconn' = IF r.ret = 1 THEN nconn + 1 ELSE nconn
         /\ last' = [op |-> "connect", ret |-> r.ret, in |-> in,
                     before |-> active_connections,
                     sock_open |-> r.sock_open]
  /\ UNCHANGED <<listening_sock, pc, cur, read_set, write_set,
                 num_active_connections, in_free, env, arg, iob, iob_call>>

\* user code between two polls, on a connection a callback has handed it
UserAct ==
  /\ pc = "idle"
  /\ \E c \in DOMAIN conns, u \in Reactions(Here) \ {[act |-> "none"]} :
       /\ mon[c].seen
       /\ Commit(UserReact(Here, c, u))
  /\ last' = [op |-> "user", ret |-> 0]
  /\ UNCHANGED <<listening_sock, nconn, pc, cur, read_set, write_set,
                 num_active_connections, in_free, env, arg, iob, iob_call>>

(* ------------------------------ poll loop ------------------------------ *)
\* entry of ts_server_poll: return 0 without a listener, else clear the
\* sets, add the listener and start the first walk
PollEnter_CountWithoutListener(free) ==
  /\ pc = "idle"
  /\ in_free' = free
  /\ IF listening_sock = INVALID_SOCKET
     THEN /\ pc' = IF free THEN "free" ELSE "idle"
          /\ cur' = IF free THEN active_connections ELSE cur
          /\ last' = [op |-> "poll", ret |-> Len(ActiveList)]
          /\ UNCHANGED <<read_set, write_set, num_active_connections>>
     ELSE /\ pc' = "pre"
          /\ cur' = active_connections
          /\ read_set' = {listening_sock}
          /\ write_set' = {}
          /\ num_active_connections' = 0
          /\ last' = [op |-> "call", ret |-> 0]
  /\ UNCHANGED <<listening_sock, active_connections, conns, nconn, mon, user_ops, env,
                 arg, iob, iob_call>>

PollEnter(free) ==
  /\ pc = "idle"
  /\ in_free' = free
  /\ IF listening_sock = INVALID_SOCKET
     THEN /\ pc' = IF free THEN "free" ELSE "idle"
          /\ cur' = IF free THEN active_connections ELSE cur
          /\ last' = [op |-> "poll", ret |-> 0]
          /\ UNCHANGED <<read_set, write_set, num_active_connections>>
     ELSE /\ pc' = "pre"
          /\ cur' = active_connections
          /\ read_set' = {listening_sock}
          /\ write_set' = {}
          /\ num_active_connections' = 0
          /\ last' = [op |-> "call", ret |-> 0]
  /\ UNCHANGED <<listening_sock, active_connections, conns, nconn, mon, user_ops, env,
                 arg, iob, iob_call>>

Poll == PollEnter(FALSE)

\* ts_server_free starts with ts_server_poll(s, 0)
ServerFree == PollEnter(TRUE)

\* the body of the first walk for connection c, after the POLL callback:
\* the sockets to add to the sets and whether the connection is closed
pre_select_step(S, c) ==
  LET r == S.conns[c]
      sending == r.send_iobuf.len > 0 /\ TSF_BUFFER_BUT_DONT_SEND \notin r.flags
  IN [rd |-> {r.sock},
      wr |-> (IF TSF_CONNECTING \in r.flags THEN {r.sock} ELSE {})
             \cup (IF sending THEN {r.sock} ELSE {}),
      S |-> IF ~sending /\ TSF_CLOSE_IMMEDIATELY \in r.flags
            THEN close_conn(S, c) ELSE S]

PreSelect ==
  /\ pc = "pre"
  /\ cur # NULL
  /\ \E u \in Reactions(Here) :
       LET tmp_conn == conns[cur].next
           S1 == call_user(Here, cur, "POLL", NULL, u)
           r == pre_select_step(S1, cur)
       IN /\ Commit(r.S)
          /\ read_set' = read_set \cup r.rd
          /\ write_set' = write_set \cup r.wr
          /\ cur' = tmp_conn
  /\ UNCHANGED <<listening_sock, nconn, pc, num_active_connections, in_free,
                 last, env, arg, iob, iob_call>>

\* accept_conn. a.accept_ok: accept() returns a socket; a.malloc_ok; u: the
\* user's reaction to ACCEPT
accept_conn(S, c, a, u) ==
  IF ~a.accept_ok THEN [S |-> S, c |-> NULL]
  ELSE IF ~a.malloc_ok THEN [S |-> S, c |-> NULL]
  ELSE LET S1 == [S EXCEPT !.mon = [x \in DOMAIN S.mon \cup {c} |->
                     IF x = c THEN NewMon("accept") ELSE S.mon[x]]]
           S2 == ADD_CONNECTION(S1, c,
                                NewConn(FreshFd(S), {TSF_ACCEPTED}, NULL))
       IN [S |-> call_user(S2, c, "ACCEPT", NULL, u), c |-> c]

AcceptEnv ==
  {[accept_ok |-> FALSE, malloc_ok |-> TRUE],
   [accept_ok |-> TRUE, malloc_ok |-> FALSE],
   [accept_ok |-> TRUE, malloc_ok |-> TRUE]}

\* the descriptors that are open: the listener and the live connections'
OpenFds == {listening_sock} \cup {conns[c].sock : c \in DOMAIN conns}

\* select(). A closed descriptor in a set makes it fail (EBADF); else it
\* times out or reports some descriptors ready. Which ones is drawn where
\* the code tests FD_ISSET: each set is tested once per descriptor. Under
\* the "writable" assumption every socket of the write set is ready.
\* The sets are emptied where the code stops reading them.
SelectResults_IgnoreClosed ==
  IF env = "writable" /\ write_set # {} THEN {1}
  ELSE {0, 1}

SelectResults ==
  IF ~((read_set \cup write_set) \subseteq OpenFds) THEN {-1}
  ELSE IF env = "writable" /\ write_set # {} THEN {1}
  ELSE {0, 1}

\* FD_ISSET(fd, &read_set) after select() returned a positive count; no
\* peer arrives once MaxConns connections exist
ReadReady(fd) ==
  IF fd \notin read_set \/ (fd = listening_sock /\ nconn >= MaxConns)
  THEN {FALSE} ELSE BOOLEAN

\* FD_ISSET(fd, &write_set) after select() returned a positive count
WriteReady(fd) ==
  IF fd \notin write_set THEN {FALSE}
  ELSE IF env = "writable" THEN {TRUE} ELSE BOOLEAN

\* select() and, when it reports something ready, the accept of one
\* connection
Select ==
  /\ pc = "pre"
  /\ cur = NULL
  /\ \E n \in SelectResults :
       IF n <= 0
       THEN /\ pc' = "reap"
            /\ cur' = active_connections
            /\ read_set' = {}
            /\ write_set' = {}
            /\ UNCHANGED <<conns, active_connections, mon, user_ops, nconn>>
       ELSE /\ pc' = "post"
            /\ UNCHANGED <<read_set, write_set>>
            /\ \E ready \in ReadReady(listening_sock) :
                 IF ready
                 THEN \E a \in AcceptEnv, u \in Reactions(Here) :
                        LET r == accept_conn(Here, nconn + 1, a, u) IN
                          /\ Commit(r.S)
                          /\ nconn' = IF r.c # NULL THEN nconn + 1 ELSE nconn
                          /\ cur' = r.S.head
                 ELSE /\ cur' = active_connections
                      /\ UNCHANGED <<conns, active_connections, mon, user_ops,
                                     nconn>>
  /\ UNCHANGED <<listening_sock, num_active_connections, in_free, last, env,
                 arg, iob, iob_call>>

\* what the system calls of read_from_socket may return
ReadEnv(S, c) ==
  LET Handshakes == IF S.conns[c].ssl THEN {"done", "again", "fail"}
                    ELSE {"none"}
  IN IF TSF_CONNECTING \in S.conns[c].flags
     THEN {[ok |-> k, res |-> SoftError, alloc |-> TRUE, ssl |-> h] :
             k \in {0, 1}, h \in Handshakes}
     ELSE {[ok |-> 0, res |-> r, alloc |-> TRUE, ssl |-> h] :
             r \in {SoftError, HardError, Returned(0)}, h \in Handshakes}
          \cup {[ok |-> 0, res |-> Returned(n), alloc |-> a, ssl |-> h] :
                  n \in 1..(MaxRecv - TotalRead(S.mon)), a \in BOOLEAN,
                  h \in Handshakes}

\* what send(sock, buf, len) may return
SendResults(len) ==
  IF len = 0 THEN {Returned(0), HardError}
  ELSE {Returned(n) : n \in 1..len}
       \cup (IF env = "writable" THEN {} ELSE {SoftError, HardError})

\* the outcomes of the readable branch of the second walk for connection c
ReadOutcomes(S, c, readable) ==
  IF readable
  THEN {read_from_socket(S, c, e, u) : e \in ReadEnv(S, c), u \in Reactions(S)}
  ELSE {S}

\* the outcomes of the writable branch of the second walk for connection c
WriteOutcomes(S, c, writable) ==
  IF writable
  THEN IF TSF_CONNECTING \in S.conns[c].flags
       THEN {read_from_socket(S, c, e, u) :
               e \in ReadEnv(S, c), u \in Reactions(S)}
       ELSE IF TSF_BUFFER_BUT_DONT_SEND \notin S.conns[c].flags
       THEN {write_to_socket(S, c, res, u) :
               res \in SendResults(S.conns[c].send_iobuf.len),
               u \in Reactions(S)}
       ELSE {S}
  ELSE {S}

\* the observations of the passes on the connections before c are dropped
RECURSIVE ForgetUpTo(_, _, _)
ForgetUpTo(m, c, k) ==
  IF k = 0 THEN m
  ELSE ForgetUpTo(IF k = c THEN m
                  ELSE [m EXCEPT ![k].pass.rx = NoRx, ![k].pass.tx = NoTx],
                  c, k - 1)

Forget(S, c) ==
  [S EXCEPT !.mon = ForgetUpTo(@, c, Cardinality(DOMAIN @))]

PostSelect ==
  /\ pc = "post"
  /\ cur # NULL
  /\ LET tmp_conn == conns[cur].next IN
       \E rd \in ReadReady(conns[cur].sock), wr \in WriteReady(conns[cur].sock) :
         \E S1 \in ReadOutcomes(Forget(Here, cur), cur, rd) :
           \E S2 \in WriteOutcomes(S1, cur, wr) :
             /\ Commit(S2)
             /\ cur' = tmp_conn
  /\ UNCHANGED <<listening_sock, nconn, pc, read_set, write_set,
                 num_active_connections, in_free, last, env, arg, iob,
                 iob_call>>

PostDone ==
  /\ pc = "post"
  /\ cur = NULL
  /\ pc' = "reap"
  /\ cur' = active_connections
  /\ read_set' = {}
  /\ write_set' = {}
  /\ mon' = [c \in DOMAIN mon |-> [mon[c] EXCEPT !.pass = NoPass]]
  /\ UNCHANGED <<listening_sock, active_connections, conns, nconn,
                 num_active_connections, in_free, last, user_ops, env,
                 arg, iob, iob_call>>

\* the body of the third walk for connection c; count is the new value of
\* num_active_connections
reap_step_KeepUnsent(S, c, count) ==
  [S |-> IF TSF_CLOSE_IMMEDIATELY \in S.conns[c].flags
            /\ S.conns[c].send_iobuf.len = 0
         THEN close_conn(S, c) ELSE S,
   count |-> count + 1]

reap_step(S, c, count) ==
  [S |-> IF TSF_CLOSE_IMMEDIATELY \in S.conns[c].flags
         THEN close_conn(S, c) ELSE S,
   count |-> count + 1]

Reap ==
  /\ pc = "reap"
  /\ cur # NULL
  /\ LET tmp_conn == conns[cur].next
         r == reap_step(Here, cur, num_active_connections)
     IN /\ Commit(r.S)
        /\ num_active_connections' = r.count
        /\ cur' = tmp_conn
  /\ UNCHANGED <<listening_sock, nconn, pc, read_set, write_set, in_free,
                 last, env, arg, iob, iob_call>>

\* return num_active_connections; ts_server_free goes on to close the
\* listener and to walk the list
PollReturn ==
  /\ pc = "reap"
  /\ cur = NULL
  /\ last' = [op |-> "poll", ret |-> num_active_connections]
  /\ pc' = IF in_free THEN "free" ELSE "idle"
  /\ cur' = IF in_free THEN active_connections ELSE NULL
  /\ num_active_connections' = 0
  /\ UNCHANGED <<listening_sock, active_connections, conns, nconn, read_set,
                 write_set, in_free, mon, user_ops, env, arg, iob, iob_call>>

\* the walk of ts_server_free
FreeWalk_HeadOnly ==
  /\ pc = "free"
  /\ cur # NULL
  /\ Commit(close_conn([Here EXCEPT !.mon[cur].causes = @ \cup {"free"}],
                       cur))
  /\ cur' = NULL
  /\ UNCHANGED <<listening_sock, nconn, pc, read_set, write_set,
                 num_active_connections, in_free, last, env, arg, iob,
                 iob_call>>

FreeWalk ==
  /\ pc = "free"
  /\ cur # NULL
  /\ LET tmp_conn == conns[cur].next IN
       /\ Commit(close_conn([Here EXCEPT !.mon[cur].causes = @ \cup {"free"}],
                            cur))
       /\ cur' = tmp_conn
  /\ UNCHANGED <<listening_sock, nconn, pc, read_set, write_set,
                 num_active_connections, in_free, last, env, arg, iob,
                 iob_call>>

FreeReturn ==
  /\ pc = "free"
  /\ cur = NULL
  /\ pc' = "freed"
  /\ last' = [op |-> "free", ret |-> 0]
  /\ UNCHANGED <<listening_sock, active_connections, conns, nconn, cur,
                 read_set, write_set, num_active_connections, in_free, mon, user_ops,
                 env, arg, iob, iob_call>>

Next ==
  \/ Bind
  \/ Connect
  \/ UserAct
  \/ Poll
  \/ ServerFree
  \/ PreSelect
  \/ Select
  \/ PostSelect
  \/ PostDone
  \/ Reap
  \/ PollReturn
  \/ FreeWalk
  \/ FreeReturn

Spec == Init /\ [][Next]_vars


(* ---------------------- the address parser alone ----------------------- *)
AddrChars == {"0", "8", ".", ":", "x"}

RECURSIVE StringsUpTo(_)
StringsUpTo(n) ==
  IF n = 0 THEN {<<>>}
  ELSE LET shorter == StringsUpTo(n - 1)
       IN shorter \cup {Append(t, ch) : t \in shorter, ch \in AddrChars}

\* the strings named by the documentation of the grammar
AddrExamples ==
  {<<"8", "0">>, <<"8", "0", "x">>, <<":", "8", "0">>, <<"0">>,
   <<"6", "5", "5", "3", "6">>, <<"6", "5", "5", "3", "5">>,
   <<"1", ".", "2", ".", "3", ":", "8", "0">>,
   <<"1", "2", "7", ".", "0", ".", "0", ".", "1", ":", "8", "0", "8", "0">>,
   <<"1", ".", "2", ".", "3", ".", "4", ":", "7", "0", "0", "0", "0">>}

AddrStrings == StringsUpTo(MaxStrLen) \cup AddrExamples

\* a fresh server and the string ts_bind_to is called with
InitBind ==
  /\ listening_sock = INVALID_SOCKET
  /\ active_connections = NULL
  /\ conns = <<>>
  /\ nconn = 0
  /\ pc = "idle"
  /\ cur = NULL
  /\ read_set = {}
  /\ write_set = {}
  /\ num_active_connections = 0
  /\ in_free = FALSE
  /\ last = Idle
  /\ mon = <<>>
  /\ user_ops = 0
  /\ env = "any"
  /\ arg \in AddrStrings
  /\ iob = EmptyIobuf
  /\ iob_call = Idle

SpecBind == InitBind /\ [][Bind]_vars

(* ------------------------- the buffer alone ---------------------------- *)
\* bytes appended to the buffer under test over one run
MaxAppended == 3

\* iob stands for the send buffer of a connection; iob_call.count is the
\* number of bytes appended so far (byte i of the stream is i)
InitIobuf ==
  /\ listening_sock = INVALID_SOCKET
  /\ active_connections = NULL
  /\ conns = <<>>
  /\ nconn = 0
  /\ pc = "iobuf"
  /\ cur = NULL
  /\ read_set = {}
  /\ write_set = {}
  /\ num_active_connections = 0
  /\ in_free = FALSE
  /\ last = Idle
  /\ mon = <<>>
  /\ user_ops = 0
  /\ env = "any"
  /\ arg = NoArg
  /\ \E size \in 0..2, malloc_ok \in BOOLEAN : iob = iobuf_init(size, malloc_ok)
  /\ iob_call = [op |-> "init", count |-> 0]

ServerUnchanged ==
  UNCHANGED <<listening_sock, active_connections, conns, nconn, pc, cur,
              read_set, write_set, num_active_connections, in_free, last, mon,
              user_ops, env, arg>>

\* ts_send(conn, buf, n) on the buffer: iobuf_append(&conn->send_iobuf, ..)
IobufSend ==
  /\ pc = "iobuf"
  /\ \E n \in -1..MaxAppended, realloc_ok \in BOOLEAN :
       /\ iob_call.count + n <= MaxAppended
       /\ LET r == iobuf_append(iob,
                     IF n > 0 THEN Stream(iob_call.count + 1, n) ELSE <<>>,
                     n, realloc_ok)
          IN /\ iob' = r.io
             /\ iob_call' = [op |-> "send", n |-> n, ret |-> r.ret,
                             before |-> iob,
                             grow_failed |-> (n > 0 /\ iob.len + n >= iob.size
                                              /\ ~realloc_ok),
                             count |-> iob_call.count + Max(r.ret, 0)]
  /\ ServerUnchanged

IobufRemove ==
  /\ pc = "iobuf"
  /\ \E n \in -1..(MaxAppended + 1) :
       /\ iob' = iobuf_remove(iob, n)
       /\ iob_call' = [op |-> "remove", n |-> n, before |-> iob,
                       count |-> iob_call.count]
  /\ ServerUnchanged

IobufFree ==
  /\ pc = "iobuf"
  /\ iob' = iobuf_free(iob)
  /\ iob_call' = [op |-> "free", before |-> iob, count |-> iob_call.count]
  /\ ServerUnchanged

IobufInit ==
  /\ pc = "iobuf"
  /\ iob_call.op = "free"
  /\ \E size \in 0..2, malloc_ok \in BOOLEAN :
       iob' = iobuf_init(size, malloc_ok)
  /\ iob_call' = [op |-> "init", count |-> iob_call.count]
  /\ ServerUnchanged

NextIobuf ==
  \/ IobufSend
  \/ IobufRemove
  \/ IobufFree
  \/ IobufInit

SpecIobuf == InitIobuf /\ [][NextIobuf]_vars

(* ------------------ repeated polls of writable sockets ----------------- *)
\* a server that has been bound; every socket of the write interest set is
\* reported writable and send() takes at least one byte
InitLive ==
  /\ listening_sock = ListenerFd
  /\ active_connections = NULL
  /\ conns = <<>>
  /\ nconn = 0
  /\ pc = "idle"
  /\ cur = NULL
  /\ read_set = {}
  /\ write_set = {}
  /\ num_active_connections = 0
  /\ in_free = FALSE
  /\ last = [op |-> "bind", ret |-> 80, os_ok |-> TRUE]
  /\ mon = <<>>
  /\ user_ops = 0
  /\ env = "writable"
  /\ arg = NoArg
  /\ iob = EmptyIobuf
  /\ iob_call = Idle

PollStep ==
  \/ Poll
  \/ PreSelect
  \/ Select
  \/ PostSelect
  \/ PostDone
  \/ Reap
  \/ PollReturn

NextLive ==
  \/ UserAct
  \/ PollStep

\* the embedder keeps calling ts_server_poll, and a call runs to its end
SpecLive == InitLive /\ [][NextLive]_vars /\ WF_vars(PollStep)

(* ----------------------- the connection list alone -------------------- *)
\* connections created over one run of the list operations
MaxListConns == 4

InitList ==
  /\ listening_sock = ListenerFd
  /\ active_connections = NULL
  /\ conns = <<>>
  /\ nconn = 0
  /\ pc = "list"
  /\ cur = NULL
  /\ read_set = {}
  /\ write_set = {}
  /\ num_active_connections = 0
  /\ in_free = FALSE
  /\ last = Idle
  /\ mon = <<>>
  /\ user_ops = 0
  /\ env = "any"
  /\ arg = NoArg
  /\ iob = EmptyIobuf
  /\ iob_call = Idle

ListUnchanged ==
  UNCHANGED <<listening_sock, pc, cur, read_set, write_set,
              num_active_connections, in_free, env, arg, iob, iob_call>>

\* accept_conn, whatever made the poll loop call it
ListAccept ==
  /\ pc = "list"
  /\ nconn < MaxListConns
  /\ \E a \in AcceptEnv :
       LET r == accept_conn(Here, nconn + 1, a, [act |-> "none"]) IN
         /\ Commit(r.S)
         /\ nconn' = IF r.c # NULL THEN nconn + 1 ELSE nconn
         /\ last' = [op |-> "accept", ret |-> r.c]
  /\ ListUnchanged

ListConnect ==
  /\ pc = "list"
  /\ nconn < MaxListConns
  /\ \E in \in ConnectInputs :
       LET r == ts_connect(Here, nconn + 1, in) IN
         /\ Commit(r.S)
         /\ nconn' = IF r.ret = 1 THEN nconn + 1 ELSE nconn
         /\ last' = [op |-> "connect", ret |-> r.ret, in |-> in,
                     before |-> active_connections,
                     sock_open |-> r.sock_open]
  /\ ListUnchanged

\* close_conn of any connection, whichever walk calls it
ListClose ==
  /\ pc = "list"
  /\ \E c \in DOMAIN conns :
       /\ Commit(close_conn(Here, c))
       /\ last' = [op |-> "close", ret |-> c]
  /\ UNCHANGED nconn
  /\ ListUnchanged

NextList ==
  \/ ListAccept
  \/ ListConnect
  \/ ListClose

SpecList == InitList /\ [][NextList]_vars

(* ------------------------------ properties ----------------------------- *)
Flagged(c) == TSF_CLOSE_IMMEDIATELY \in conns[c].flags

OnList(c) == \E i \in 1..Len(ActiveList) : ActiveList[i] = c

\* ts_server_poll has just returned to its caller
PollReturned == pc = "idle" /\ last.op = "poll"

HasListener == listening_sock # INVALID_SOCKET

\* C1: on a server with a listener, the value ts_server_poll returns is the
\* number of connections on the active list when it returns.
C1_PollReturnsSurvivors ==
  (PollReturned /\ HasListener) => last.ret = Len(ActiveList)

\* C2 as stated: after any call of ts_server_poll returns, with or without
\* a listener, no connection on the active list has close-immediately set.
C2_NoFlaggedAfterAnyPoll ==
  PollReturned => \A c \in DOMAIN conns : OnList(c) => ~Flagged(c)

\* C2, amended: after a call of ts_server_poll on a server with a listener
\* returns, no connection on the active list has close-immediately set.
C2_NoFlaggedAfterPollWithListener ==
  (PollReturned /\ HasListener) =>
    \A c \in DOMAIN conns : OnList(c) => ~Flagged(c)

\* a poll with a listener has returned after a connection was destroyed and
\* another one survived
C2_Witness ==
  /\ PollReturned /\ HasListener
  /\ Len(ActiveList) > 0
  /\ \E c \in DOMAIN mon : mon[c].closes = 1

\* C3 as stated: ACCEPT or CONNECT is emitted exactly once for a
\* connection, before any RECV or SEND, and CLOSE exactly once and last; so
\* a connection that has had its CLOSE has had its ACCEPT or CONNECT.
C3_OpenOnceCloseOnceLast ==
  \A c \in DOMAIN mon :
    /\ mon[c].opens <= 1
    /\ ~mon[c].io_before_open
    /\ mon[c].closes <= 1
    /\ ~mon[c].after_close
    /\ mon[c].closes = 1 => mon[c].opens = 1

\* C3, amended: ACCEPT is emitted exactly once, when the connection is
\* created; CONNECT is emitted at most once, and exactly once as soon as
\* connecting is cleared; neither RECV nor SEND comes before them; CLOSE is
\* emitted exactly once, when the connection is destroyed, and nothing
\* after it.
C3_OpenAtMostOnceCloseOnceLast ==
  \A c \in DOMAIN mon :
    /\ mon[c].opens <= 1
    /\ ~mon[c].io_before_open
    /\ mon[c].closes <= 1
    /\ ~mon[c].after_close
    /\ mon[c].kind = "accept" => mon[c].opens = 1
    /\ c \in DOMAIN conns =>
         /\ mon[c].closes = 0
         /\ mon[c].opens = 0 <=> TSF_CONNECTING \in conns[c].flags
    /\ c \notin DOMAIN conns => mon[c].closes = 1

\* an outbound connection was destroyed before its connect resolved, and
\* another one went through CONNECT, a successful send pass and CLOSE
C3_Witness ==
  /\ \E c \in DOMAIN mon :
       mon[c].kind = "connect" /\ mon[c].closes = 1 /\ mon[c].opens = 0
  /\ \E c \in DOMAIN mon :
       /\ mon[c].kind = "connect" /\ mon[c].closes = 1 /\ mon[c].opens = 1
       /\ mon[c].status = 0 /\ mon[c].causes = {"fin"}

\* C4: in each direction of a connection bytes are neither reordered,
\* duplicated nor lost: the bytes appended to the receive buffer are the
\* bytes read from the socket, and the bytes written to the socket are a
\* prefix of the bytes ts_send accepted.
C4_BytesInOrder ==
  \A c \in DOMAIN conns :
    /\ mon[c].appended = Stream(1, mon[c].read)
    /\ IsPrefix(mon[c].written, Stream(1, mon[c].accepted))

\* C7: after CONNECT with a non-zero status no RECV or SEND is emitted for
\* the connection, and it is destroyed (CLOSE) by the end of that poll pass.
C7_FailedConnectThenClose ==
  \A c \in DOMAIN mon :
    mon[c].status > 0 =>
      /\ ~mon[c].io_after_fail
      /\ pc = "idle" => mon[c].closes = 1

\* C9: the send pass sets close-immediately on account of finished-sending
\* only when every byte accepted before the flag was set has been written,
\* and a connection destroyed on that account alone has lost none of them.
C9_FinishedSendingFlushes ==
  \A c \in DOMAIN mon :
    /\ (c \in DOMAIN conns /\ "fin" \in mon[c].causes) =>
         /\ mon[c].fin_mark >= 0
         /\ Len(mon[c].written) >= mon[c].fin_mark
         /\ conns[c].send_iobuf.len = mon[c].accepted - Len(mon[c].written)
    /\ (c \notin DOMAIN conns /\ mon[c].causes = {"fin"}) => mon[c].lost = 0

\* a connection was destroyed on account of finished-sending alone after
\* two bytes accepted before the flag was set
C9_Witness ==
  \E c \in DOMAIN mon :
    /\ c \notin DOMAIN conns
    /\ mon[c].causes = {"fin"}
    /\ mon[c].accepted = 2
    /\ mon[c].lost = 0

\* C10: a call of ts_connect (without SSL) returns 0 only when name
\* resolution, socket creation, allocation or connect() fails hard; when
\* connect() returns 0 or reports in-progress it returns 1 and the new
\* connection, with connecting set and the caller's param, is the head of
\* the active list.
C10_ConnectSucceeds ==
  (last.op = "connect" /\ ~last.in.use_ssl) =>
    LET in == last.in
        hard == in.res.n < 0 /\ ~in.res.soft
        called == in.host_ok /\ in.sock_ok
    IN /\ last.ret = 0 =>
            (~in.host_ok \/ ~in.sock_ok \/ ~in.malloc_ok \/ hard)
       /\ (called /\ ~hard /\ in.malloc_ok) =>
            /\ last.ret = 1
            /\ active_connections = nconn
            /\ active_connections \in DOMAIN conns
            /\ conns[active_connections].flags = {TSF_CONNECTING}
            /\ conns[active_connections].connection_data = in.param
            /\ conns[active_connections].next = last.before

\* C5: after ts_send(conn, buf, n) returns k the send buffer is k bytes
\* longer and the bytes it held are unchanged; k is 0 when n <= 0 or when
\* growing the buffer fails, and the buffer is then unchanged.
C5_SendGrowsByReturn ==
  iob_call.op = "send" =>
    LET b == iob_call.before
        k == iob_call.ret
    IN /\ iob.len = b.len + k
       /\ SubSeq(iob.data, 1, b.len) = b.data
       /\ (iob_call.n <= 0 \/ iob_call.grow_failed) => (k = 0 /\ iob = b)

\* C6: ts_bind_to returns 0 whenever it fails: for a string the parser
\* rejects the server keeps no listener, and when the listener cannot be
\* opened the listening socket is the invalid sentinel and 0 is returned.
C6_BindFailureReturnsZero ==
  last.op = "bind" =>
    /\ parse_port_string(arg).ret = 0 =>
         (last.ret = 0 /\ listening_sock = INVALID_SOCKET)
    /\ ~last.os_ok => (last.ret = 0 /\ listening_sock = INVALID_SOCKET)

\* C8: once finished-sending is set on a connection whose send buffer is
\* empty, repeated polls with writable sockets eventually destroy it.
C8_FinishedSendingCloses ==
  \A c \in 1..MaxConns :
    (/\ c \in DOMAIN conns
     /\ TSF_FINISHED_SENDING_DATA \in conns[c].flags
     /\ conns[c].send_iobuf.len = 0)
      ~> (c \notin DOMAIN conns)

\* C11: when ts_server_free has returned on a server with a listener the
\* active list is empty, no connection record is left, every connection
\* that was created has had CLOSE exactly once and nothing after it; and
\* while it runs the walks only hold pointers to records that are allocated.
C11_FreeClosesAll ==
  /\ (pc = "freed" /\ HasListener) =>
       /\ active_connections = NULL
       /\ DOMAIN conns = {}
       /\ \A c \in DOMAIN mon : mon[c].closes = 1 /\ ~mon[c].after_close
  /\ (in_free \/ pc \in {"free", "freed"}) =>
       /\ cur \in DOMAIN conns \cup {NULL}
       /\ active_connections \in DOMAIN conns \cup {NULL}
       /\ \A c \in DOMAIN conns :
            {conns[c].next, conns[c].prev} \subseteq DOMAIN conns \cup {NULL}

\* ts_server_free has returned on a server with a listener: its own walk
\* destroyed a connection with bytes still to send, and its poll another
C11_Witness ==
  /\ pc = "freed" /\ HasListener
  /\ \E c \in DOMAIN mon :
       "free" \in mon[c].causes /\ mon[c].accepted > 0 /\ mon[c].closes = 1
  /\ \E c \in DOMAIN mon :
       "free" \notin mon[c].causes /\ mon[c].closes = 1

\* C12: a call of ts_server_poll on a server without a listener returns 0
\* at once and changes nothing: no event reaches the callback, no flag or
\* buffer of a connection changes and the active list is as it was, also
\* when it holds outbound connections.
C12_PollWithoutListenerIsNoOp ==
  [][(pc = "idle" /\ ~HasListener /\ last'.op \in {"poll", "call"}) =>
       /\ last' = [op |-> "poll", ret |-> 0]
       /\ conns' = conns
       /\ active_connections' = active_connections
       /\ mon' = mon
       /\ user_ops' = user_ops
       /\ listening_sock' = listening_sock
       /\ read_set' = read_set /\ write_set' = write_set]_vars

\* ts_server_poll has returned on a server without a listener whose active
\* list holds an outbound connection that is still connecting
C12_Witness ==
  /\ PollReturned /\ ~HasListener
  /\ \E c \in DOMAIN conns : OnList(c) /\ TSF_CONNECTING \in conns[c].flags

\* C13: a receive pass on a connection that is not connecting emits RECV
\* exactly once when recv() returned a positive count, and not at all when
\* it returned zero, a hard error or a soft error.
C13_RecvOncePerNonEmptyRead ==
  \A c \in DOMAIN conns :
    LET rx == mon[c].pass.rx IN
      rx # NoRx => rx.events = (IF rx.res.n > 0 THEN 1 ELSE 0)

\* C14: a socket ts_connect obtained is closed before a failing ts_connect
\* returns, and no connection is linked; one that stays open belongs to
\* the connection just linked, and a connection's socket is open as long
\* as its record exists (close_conn alone closes it).
C14_SocketsClosedOnce ==
  last.op = "connect" =>
    /\ last.ret = 0 =>
         (~last.sock_open /\ active_connections = last.before)
    /\ last.ret = 1 =>
         (last.sock_open /\ active_connections \in DOMAIN conns)

\* C15: in the poll that accepts a connection, no CONNECT, RECV or SEND is
\* emitted for it (no receive or send pass runs on it), although the
\* second walk starts at the new connection.
C15_NoIoInAcceptPass ==
  \A c \in DOMAIN mon : ~mon[c].pass.io

\* the second walk has gone over a connection accepted by this poll and
\* over an older connection, on which it ran a receive pass
C15_Witness ==
  /\ pc = "post" /\ cur = NULL
  /\ \E c, d \in DOMAIN conns :
       /\ mon[c].pass.fresh /\ mon[c].opens = 1 /\ active_connections = c
       /\ conns[c].next = d
       /\ mon[d].pass.rx # NoRx

\* C16: a send pass runs on a connection only when its send buffer is not
\* empty and buffer-but-dont-send is clear at that moment.
C16_SendPassOnlyWithData ==
  \A c \in DOMAIN conns :
    LET tx == mon[c].pass.tx IN
      tx # NoTx => (tx.len > 0 /\ ~tx.hold)

\* C17: no step clears close-immediately on a connection while its record
\* exists, and when a poll on a server with a listener returns no record
\* with the flag is left: a connection that has the flag is destroyed by
\* the end of the next such poll.
C17_CloseImmediatelyMonotonic ==
  [][/\ \A c \in DOMAIN conns \cap DOMAIN conns' :
          TSF_CLOSE_IMMEDIATELY \in conns[c].flags =>
            TSF_CLOSE_IMMEDIATELY \in conns'[c].flags
     /\ (pc = "reap" /\ pc' # "reap") =>
          \A c \in DOMAIN conns' :
            TSF_CLOSE_IMMEDIATELY \notin conns'[c].flags]_vars

\* a poll with a listener has returned after destroying a connection the
\* user had flagged while bytes were waiting in its send buffer
C17_Witness ==
  /\ PollReturned /\ HasListener
  /\ \E c \in DOMAIN mon :
       /\ c \notin DOMAIN conns
       /\ mon[c].causes = {"user"}
       /\ mon[c].accepted > 0

\* C18: after any sequence of iobuf_init, iobuf_append, iobuf_remove and
\* iobuf_free, allocation failing or not, 0 <= len <= size holds, the
\* buffer holds len bytes, and size = 0 implies that the storage pointer
\* is NULL.
C18_IobufWellFormed ==
  /\ 0 <= iob.len /\ iob.len <= iob.size
  /\ Len(iob.data) = iob.len
  /\ iob.size = 0 => ~iob.buf

\* an append has just failed to grow a buffer that holds bytes
C18_Witness ==
  /\ iob_call.op = "send" /\ iob_call.grow_failed
  /\ iob.len > 0 /\ iob.buf

\* C19: the active list is a well-formed doubly-linked list: the head has
\* no prev, next and prev of linked records are inverse to each other and
\* point to allocated records, every created and not yet closed connection
\* is on the list exactly once, and no closed connection is reachable.
C19_ListWellFormed ==
  LET L == ListFrom(conns, active_connections, nconn + 1)
      Live == DOMAIN conns \cup {NULL}
  IN /\ active_connections \in Live
     /\ active_connections # NULL => conns[active_connections].prev = NULL
     /\ \A c \in DOMAIN conns :
          /\ conns[c].next \in Live /\ conns[c].prev \in Live
          /\ conns[c].next # NULL => conns[conns[c].next].prev = c
          /\ conns[c].prev # NULL => conns[conns[c].prev].next = c
          /\ Cardinality({i \in 1..Len(L) : L[i] = c}) = 1
     /\ \A i \in 1..Len(L) : L[i] \in DOMAIN conns /\ mon[L[i]].closes = 0
     /\ \A c \in DOMAIN mon : mon[c].closes = 0 <=> c \in DOMAIN conns

\* a connection has been unlinked from between two others, which are now
\* neighbours, and the head has a successor too
C19_Witness ==
  \E a, b \in DOMAIN conns, c \in DOMAIN mon :
    /\ c \notin DOMAIN conns
    /\ a > c /\ c > b
    /\ conns[a].next = b /\ conns[b].prev = a
    /\ conns[a].prev # NULL
    /\ last.op = "close"

\* C20: when ts_server_poll calls select(), every descriptor of the read
\* and write sets is the listener or the socket of a connection that is
\* still on the active list.
C20_SelectSetsHoldLiveSockets ==
  (pc = "pre" /\ cur = NULL) =>
    \A fd \in read_set \cup write_set :
      \/ fd = listening_sock
      \/ \E c \in DOMAIN conns : OnList(c) /\ conns[c].sock = fd

=============================================================================
